---- MODULE Spec2Model ----
(***************************************************************************)
(* Model of Sangam.py: a sales dashboard script.  Every pass of the script *)
(* runs setup_database, reads the sidebar widgets, runs the upload handler *)
(* when the button was pressed, then lists the datasets, fetches the       *)
(* selected one, filters it by a date range and aggregates it.             *)
(*                                                                         *)
(* Text is modelled as a sequence of one-character strings, a DataFrame as *)
(* [columns, rows] with one cell per column, a Timestamp as a number of    *)
(* hours since 00:00 of 1 January 1970, the SQLite file as the two tables  *)
(* with their AUTOINCREMENT counters.                                      *)
(***************************************************************************)
EXTENDS Integers, Sequences, FiniteSets, TLC

(* ------------------------------ bounds ------------------------------- *)
\* rows in an uploaded file
MaxRows == 2
\* connections the model lets stay open before it stops calling fetch_data
MaxOpen == 2

\* the year Timestamps are counted from
EpochYear == 1970

(* ------------------------------- text -------------------------------- *)
UpperCase == <<"A", "B", "C", "D", "E", "F", "G", "H", "I", "J", "K", "L", "M", "N", "O", "P", "Q", "R", "S", "T", "U", "V", "W", "X", "Y", "Z">>
LowerCase == <<"a", "b", "c", "d", "e", "f", "g", "h", "i", "j", "k", "l", "m", "n", "o", "p", "q", "r", "s", "t", "u", "v", "w", "x", "y", "z">>

Range(s) == {s[i] : i \in 1..Len(s)}

\* str.lower on one character
LowerChar(c) ==
  IF \E i \in 1..Len(UpperCase) : UpperCase[i] = c
  THEN LowerCase[CHOOSE i \in 1..Len(UpperCase) : UpperCase[i] = c]
  ELSE c

\* str.strip: drop leading and trailing blanks
RECURSIVE LStrip(_)
LStrip(s) == IF s # <<>> /\ Head(s) = " " THEN LStrip(Tail(s)) ELSE s

RECURSIVE RStrip(_)
RStrip(s) ==
  IF s # <<>> /\ s[Len(s)] = " " THEN RStrip(SubSeq(s, 1, Len(s) - 1)) ELSE s

Strip(s) == RStrip(LStrip(s))

\* str.lower
Lower(s) == [i \in 1..Len(s) |-> LowerChar(s[i])]

\* str.replace(" ", "_")
ReplaceSpaces(s) == [i \in 1..Len(s) |-> IF s[i] = " " THEN "_" ELSE s[i]]

\* the canonical column names of the two tables
c_order_date == <<"o", "r", "d", "e", "r", "_", "d", "a", "t", "e">>
c_sales == <<"s", "a", "l", "e", "s">>
c_profit == <<"p", "r", "o", "f", "i", "t">>
c_category == <<"c", "a", "t", "e", "g", "o", "r", "y">>
c_region == <<"r", "e", "g", "i", "o", "n">>
c_sub_category == <<"s", "u", "b", "_", "c", "a", "t", "e", "g", "o", "r", "y">>
c_quantity == <<"q", "u", "a", "n", "t", "i", "t", "y">>
c_discount == <<"d", "i", "s", "c", "o", "u", "n", "t">>
c_dataset_id == <<"d", "a", "t", "a", "s", "e", "t", "_", "i", "d">>
c_id == <<"i", "d">>
\* the two aliases of sub_category
k_sub_hyphen == <<"s", "u", "b", "-", "c", "a", "t", "e", "g", "o", "r", "y">>
k_subcategory == <<"s", "u", "b", "c", "a", "t", "e", "g", "o", "r", "y">>

\* column_mapping: every key that is not mapped to itself
column_mapping(c) ==
  IF c = k_sub_hyphen \/ c = k_subcategory THEN c_sub_category ELSE c

required_columns ==
  <<c_order_date, c_sales, c_profit, c_category, c_region, c_sub_category,
    c_quantity, c_discount>>

\* the columns of table sales_data
SalesDataColumns ==
  {c_id, c_dataset_id, c_order_date, c_sales, c_profit, c_category, c_region,
   c_sub_category, c_quantity, c_discount}

(* ------------------------------ dates -------------------------------- *)
\* pandas' missing values: NaT for a timestamp, NaN/None for a cell
NaT == -1
NaN == "NaN"
\* a NULL in a column of date texts
NullText == <<0, 0, 0, 0>>

IsLeap(y) == (y % 4 = 0 /\ y % 100 # 0) \/ y % 400 = 0

DaysInMonth(y, m) ==
  IF m = 2 THEN (IF IsLeap(y) THEN 29 ELSE 28)
  ELSE IF m \in {4, 6, 9, 11} THEN 30 ELSE 31

DaysInYear(y) == IF IsLeap(y) THEN 366 ELSE 365

\* leap years before year y, counted from year 1
LeapsBefore(y) == ((y - 1) \div 4) - ((y - 1) \div 100) + ((y - 1) \div 400)

DaysBeforeYear(y) ==
  365 * (y - EpochYear) + LeapsBefore(y) - LeapsBefore(EpochYear)

RECURSIVE DaysBeforeMonth(_, _)
DaysBeforeMonth(y, m) ==
  IF m <= 1 THEN 0 ELSE DaysBeforeMonth(y, m - 1) + DaysInMonth(y, m - 1)

\* a date text is <<year, month, day, hour>>; a calendar date is a day number
ValidDateText(t) ==
  /\ t[1] >= EpochYear
  /\ t[2] \in 1..12
  /\ t[3] \in 1..DaysInMonth(t[1], t[2])
  /\ t[4] \in 0..23

DayNumber(y, m, d) == DaysBeforeYear(y) + DaysBeforeMonth(y, m) + (d - 1)

\* pd.to_datetime(..., errors="coerce") on one cell
to_datetime(t) ==
  IF ValidDateText(t) THEN DayNumber(t[1], t[2], t[3]) * 24 + t[4] ELSE NaT

\* the year day n falls in, searched upwards from y
RECURSIVE YearOfDay(_, _)
YearOfDay(y, n) == IF n < DaysBeforeYear(y + 1) THEN y ELSE YearOfDay(y + 1, n)

RECURSIVE MonthOfDay(_, _, _)
MonthOfDay(y, m, n) ==
  IF n < DaysInMonth(y, m) THEN m ELSE MonthOfDay(y, m + 1, n - DaysInMonth(y, m))

\* the TEXT a Timestamp is stored as ("YYYY-MM-DD HH:MM:SS", minutes and
\* seconds being zero for every timestamp of the model)
TimestampText(ts) ==
  LET n == ts \div 24
      y == YearOfDay(EpochYear + n \div 366, n)
      k == n - DaysBeforeYear(y)
      m == MonthOfDay(y, 1, k)
  IN  <<y, m, k - DaysBeforeMonth(y, m) + 1, ts % 24>>

\* Timestamp.date(): the calendar day of a timestamp
DateOf(ts) == ts \div 24

\* the Timestamp a datetime.date is compared as: midnight of that day
Midnight(day) == day * 24

(* ---------------------------- DataFrames ------------------------------ *)
\* a DataFrame: its column names and, per row, one cell per column
Frame(columns, rows) == [columns |-> columns, rows |-> rows]

ColIndex(frame, c) == CHOOSE i \in 1..Len(frame.columns) : frame.columns[i] = c

Cell(frame, row, c) == row[ColIndex(frame, c)]

\* frame[c] = pd.to_datetime(frame[c], errors="coerce"), cell by cell
to_datetime_column(frame, c) ==
  LET k == ColIndex(frame, c)
  IN  Frame(frame.columns,
            [r \in 1..Len(frame.rows) |->
               [i \in 1..Len(frame.columns) |->
                  IF i = k THEN to_datetime(frame.rows[r][i]) ELSE frame.rows[r][i]]])

\* frame[c] = v: overwrite the column, or add it as the last one
SetColumn(frame, c, v) ==
  IF c \in Range(frame.columns)
  THEN Frame(frame.columns,
             [r \in 1..Len(frame.rows) |->
                [i \in 1..Len(frame.columns) |->
                   IF i = ColIndex(frame, c) THEN v ELSE frame.rows[r][i]]])
  ELSE Frame(Append(frame.columns, c),
             [r \in 1..Len(frame.rows) |-> Append(frame.rows[r], v)])

normalize_column(h) == ReplaceSpaces(Lower(Strip(h)))

normalize_and_map_columns(dataframe) ==
  Frame([i \in 1..Len(dataframe.columns) |->
           column_mapping(normalize_column(dataframe.columns[i]))],
        dataframe.rows)

\* a validation that overlooks the last required column
missing_columns_skips_last(dataframe, required) ==
  LET absent(c) == c \notin Range(dataframe.columns)
  IN  SelectSeq(SubSeq(required, 1, Len(required) - 1), absent)

missing_columns(dataframe, required) ==
  LET absent(c) == c \notin Range(dataframe.columns)
  IN  SelectSeq(required, absent)

validate_columns(dataframe, required) == missing_columns(dataframe, required) = <<>>

\* a coercion that keeps the rows it could not parse
coerce_and_drop_keeps_rows(data) == to_datetime_column(data, c_order_date)

\* data["order_date"] = pd.to_datetime(data["order_date"], errors="coerce")
\* data.dropna(subset=["order_date"], inplace=True)
coerce_and_drop(data) ==
  LET parsed == to_datetime_column(data, c_order_date)
      valid(row) == Cell(parsed, row, c_order_date) # NaT
  IN  Frame(parsed.columns, SelectSeq(parsed.rows, valid))

(* ----------------------------- database ------------------------------ *)
\* the file sales_data.db; seq_* are the AUTOINCREMENT counters
EmptyDb ==
  [created |-> FALSE, datasets |-> <<>>, sales_data |-> <<>>,
   seq_datasets |-> 0, seq_sales |-> 0]

\* a connection: the file's committed content, the content this connection
\* sees (its open transaction included) and whether it is still open
connect(file) == [durable |-> file, work |-> file, open |-> TRUE]

commit(conn) == [conn EXCEPT !.durable = conn.work]

rollback(conn) == [conn EXCEPT !.work = conn.durable]

\* close() discards the transaction that was not committed
close(conn) == [conn EXCEPT !.work = conn.durable, !.open = FALSE]

\* a setup that drops and recreates the tables
create_tables_recreates(conn) ==
  [conn EXCEPT !.work = [EmptyDb EXCEPT !.created = TRUE]]

\* CREATE TABLE IF NOT EXISTS datasets ..., sales_data ...
create_tables(conn) ==
  IF conn.work.created THEN conn
  ELSE [conn EXCEPT !.work = [EmptyDb EXCEPT !.created = TRUE]]

setup_database(file) == close(commit(create_tables(connect(file))))

DatasetNames(database) == {database.datasets[i].name : i \in 1..Len(database.datasets)}

\* an insert into a registry whose name column is not UNIQUE
insert_dataset_not_unique(conn, name, upload_date) ==
  [ok |-> TRUE,
   conn |-> [conn EXCEPT
     !.work.datasets = Append(@, [id |-> conn.work.seq_datasets + 1,
                                 name |-> name,
                                 upload_date |-> upload_date]),
     !.work.seq_datasets = @ + 1]]

\* an insert on a connection in autocommit mode
insert_dataset_autocommit(conn, name, upload_date) ==
  IF name \in DatasetNames(conn.work)
  THEN [ok |-> FALSE, conn |-> conn]
  ELSE [ok |-> TRUE,
        conn |-> commit([conn EXCEPT
          !.work.datasets = Append(@, [id |-> conn.work.seq_datasets + 1,
                                      name |-> name,
                                      upload_date |-> upload_date]),
          !.work.seq_datasets = @ + 1])]

\* INSERT INTO datasets (name, upload_date): name is UNIQUE
insert_dataset(conn, name, upload_date) ==
  IF name \in DatasetNames(conn.work)
  THEN [ok |-> FALSE, conn |-> conn]
  ELSE [ok |-> TRUE,
        conn |-> [conn EXCEPT
          !.work.datasets = Append(@, [id |-> conn.work.seq_datasets + 1,
                                      name |-> name,
                                      upload_date |-> upload_date]),
          !.work.seq_datasets = @ + 1]]

\* SELECT id FROM datasets WHERE name = ?   (0: no such row)
select_id(database, name) ==
  IF name \in DatasetNames(database)
  THEN database.datasets[CHOOSE i \in 1..Len(database.datasets) :
                           database.datasets[i].name = name].id
  ELSE 0

\* the value sqlite3 stores for a cell: a Timestamp becomes its text, NaT NULL
sql_value(c, v) ==
  IF c = c_order_date THEN (IF v = NaT THEN NullText ELSE TimestampText(v)) ELSE v

\* one row of sales_data, built from row r of the frame: id is assigned, a
\* column the INSERT does not name is NULL
sales_row(frame, r, id) ==
  [c \in SalesDataColumns |->
     IF c = c_id THEN id
     ELSE IF c \in Range(frame.columns)
     THEN sql_value(c, Cell(frame, frame.rows[r], c))
     ELSE NaN]

\* DataFrame.to_sql("sales_data", conn, if_exists="append", index=False):
\* one INSERT naming every column of the frame, in the connection's open
\* transaction, which is committed when it succeeds and rolled back when the
\* table lacks one of the columns
to_sql(conn, frame) ==
  IF Range(frame.columns) \subseteq SalesDataColumns
  THEN [ok |-> TRUE,
        conn |-> commit([conn EXCEPT
          !.work.sales_data =
             @ \o [r \in 1..Len(frame.rows) |->
                     sales_row(frame, r, conn.work.seq_sales + r)],
          !.work.seq_sales = @ + Len(frame.rows)])]
  ELSE [ok |-> FALSE, conn |-> rollback(conn)]

\* the messages the script shows
Msg(kind) == [kind |-> kind, columns |-> <<>>]
MsgMissing(columns) == [kind |-> "missing_columns", columns |-> columns]

save_to_database(file, name, dataframe, upload_date) ==
  LET conn == connect(file)
      ins == insert_dataset(conn, name, upload_date)
      dataset_id == select_id(ins.conn.work, name)
      stamped == SetColumn(dataframe, c_dataset_id, dataset_id)
      app == to_sql(ins.conn, stamped)
  IN  IF ~ins.ok
      THEN [conn |-> close(ins.conn), message |-> Msg("duplicate_name"),
            dataframe |-> dataframe]
      ELSE IF ~app.ok
      THEN [conn |-> close(app.conn), message |-> Msg("database_error"),
            dataframe |-> stamped]
      ELSE [conn |-> close(commit(app.conn)), message |-> Msg("saved"),
            dataframe |-> stamped]

fetch_dataset_names(file) ==
  LET conn == connect(file)
  IN  [conn |-> close(conn),
       names |-> [i \in 1..Len(conn.work.datasets) |-> conn.work.datasets[i].name]]

\* the column order of SELECT * FROM sales_data
sales_data_columns ==
  <<c_id, c_dataset_id, c_order_date, c_sales, c_profit, c_category, c_region,
    c_sub_category, c_quantity, c_discount>>

\* SELECT * FROM sales_data WHERE dataset_id = ?
select_sales(database, id) ==
  LET mine(row) == row[c_dataset_id] = id
      rows == SelectSeq(database.sales_data, mine)
  IN  Frame(sales_data_columns,
            [r \in 1..Len(rows) |->
               [i \in 1..Len(sales_data_columns) |-> rows[r][sales_data_columns[i]]]])

NoFrame == Frame(<<>>, <<>>)

\* found = FALSE is the None result, which returns before conn.close()
fetch_data(file, name) ==
  LET conn == connect(file)
      dataset_id == select_id(conn.work, name)
  IN  IF dataset_id = 0
      THEN [conn |-> conn, found |-> FALSE, dataframe |-> NoFrame]
      ELSE [conn |-> close(conn), found |-> TRUE,
            dataframe |-> select_sales(conn.work, dataset_id)]

(* ------------------------ filter and aggregation --------------------- *)
\* df["order_date"] = pd.to_datetime(df["order_date"])
\* (every stored text is one TimestampText wrote, so none fails to parse)
parse_order_date(frame) == to_datetime_column(frame, c_order_date)

\* df[(df["order_date"] >= start_date) & (df["order_date"] <= end_date)]
filter_by_date(frame, start_date, end_date) ==
  LET keep(row) ==
        /\ Cell(frame, row, c_order_date) >= Midnight(start_date)
        /\ Cell(frame, row, c_order_date) <= Midnight(end_date)
  IN  Frame(frame.columns, SelectSeq(frame.rows, keep))

RECURSIVE SumColumn(_, _, _)
SumColumn(frame, rows, c) ==
  IF rows = <<>> THEN 0
  ELSE Cell(frame, Head(rows), c) + SumColumn(frame, Tail(rows), c)

\* a grouping that makes a group of the rows whose key is missing
groupby_sum_keeps_missing(frame, key) ==
  LET keys == {Cell(frame, frame.rows[r], key) : r \in 1..Len(frame.rows)}
      group(k) == LET in(row) == Cell(frame, row, key) = k
                  IN  SelectSeq(frame.rows, in)
  IN  {[key |-> k, sales |-> SumColumn(frame, group(k), c_sales)] : k \in keys}

\* frame.groupby(key)["sales"].sum().reset_index(): one row per key value,
\* rows whose key is missing belonging to no group
groupby_sum(frame, key) ==
  LET keys == {Cell(frame, frame.rows[r], key) : r \in 1..Len(frame.rows)} \ {NaN}
      group(k) == LET in(row) == Cell(frame, row, key) = k
                  IN  SelectSeq(frame.rows, in)
  IN  {[key |-> k, sales |-> SumColumn(frame, group(k), c_sales)] : k \in keys}

(* ------------------------------ inputs ------------------------------- *)
\* the headers a file can carry
h_OrderDate == <<"O", "r", "d", "e", "r", " ", "D", "a", "t", "e">>
h_Sales == <<"S", "a", "l", "e", "s">>
h_Profit == <<"P", "r", "o", "f", "i", "t">>
h_Category == <<"C", "a", "t", "e", "g", "o", "r", "y">>
h_Region == <<"R", "e", "g", "i", "o", "n">>
h_SubCategory == <<"S", "u", "b", "-", "C", "a", "t", "e", "g", "o", "r", "y">>
h_Quantity == <<"Q", "u", "a", "n", "t", "i", "t", "y">>
h_Discount == <<"D", "i", "s", "c", "o", "u", "n", "t">>
h_sales_padded == <<" ", "S", "A", "L", "E", "S", " ">>
h_order_date_sp == <<"o", "r", "d", "e", "r", " ", "d", "a", "t", "e">>
h_ShipMode == <<"S", "h", "i", "p", " ", "M", "o", "d", "e">>

\* a layout: the headers of a file and the field each column carries
Col(header, field) == [header |-> header, field |-> field]

StandardLayout ==
  <<Col(h_OrderDate, "order_date"), Col(h_Sales, "sales"), Col(h_Profit, "profit"),
    Col(h_Category, "category"), Col(h_Region, "region"),
    Col(h_SubCategory, "sub_category"), Col(h_Quantity, "quantity"),
    Col(h_Discount, "discount")>>

\* other spellings, another column order
AliasLayout ==
  <<Col(c_region, "region"), Col(h_Category, "category"), Col(h_sales_padded, "sales"),
    Col(c_profit, "profit"), Col(h_order_date_sp, "order_date"),
    Col(k_subcategory, "sub_category"), Col(c_quantity, "quantity"),
    Col(c_discount, "discount")>>

\* the standard layout without its k-th column
Without(k) ==
  [i \in 1..(Len(StandardLayout) - 1) |->
     IF i < k THEN StandardLayout[i] ELSE StandardLayout[i + 1]]

ExtraLayout == Append(StandardLayout, Col(h_ShipMode, "ship_mode"))

CompleteLayouts == {StandardLayout, AliasLayout}
LackingLayouts == {Without(k) : k \in 1..Len(StandardLayout)}
Layouts == CompleteLayouts \cup LackingLayouts \cup {ExtraLayout}

\* the rows a file can hold: an afternoon, a date that does not exist, and
\* a later day with an empty category cell
SheetRow(order_date, sales, category, region) ==
  [order_date |-> order_date, sales |-> sales, profit |-> 1, category |-> category,
   region |-> region, sub_category |-> "Chairs", quantity |-> 1, discount |-> 0,
   ship_mode |-> "Air"]

RowChoices ==
  <<SheetRow(<<2023, 1, 1, 14>>, 10, "A", "East"),
    SheetRow(<<2023, 2, 30, 0>>, 3, "B", "West"),
    SheetRow(<<2023, 6, 15, 0>>, 5, NaN, "West")>>

\* the sheets of at most MaxRows rows, rows in the order of RowChoices
Picks(n) ==
  {f \in [1..n -> 1..Len(RowChoices)] : \A i \in 1..(n - 1) : f[i] <= f[i + 1]}

RowSeqs ==
  UNION {{[i \in 1..n |-> RowChoices[pick[i]]] : pick \in Picks(n)} : n \in 0..MaxRows}

NameChoices == {"north", "south"}

n_csv == <<"s", ".", "c", "s", "v">>
n_xlsx == <<"s", ".", "x", "l", "s", "x">>
n_txt == <<"s", ".", "t", "x", "t">>

\* an uploaded file: its name, whether its content is an Excel workbook, and
\* the table it holds
File(name, workbook, layout, rows) ==
  [name |-> name, workbook |-> workbook,
   columns |-> [i \in 1..Len(layout) |-> layout[i].header],
   rows |-> [r \in 1..Len(rows) |->
               [i \in 1..Len(layout) |-> rows[r][layout[i].field]]]]

NoFile == [name |-> <<>>, workbook |-> FALSE, columns |-> <<>>, rows |-> <<>>]

\* the sheets that repeat the first row
PlainSeqs == {[i \in 1..n |-> RowChoices[1]] : n \in 0..MaxRows}

\* every sheet under the layouts that have the eight columns; the plain
\* sheets under the layouts that lack one, as a workbook and as a text file
Files ==
  {File(n_csv, FALSE, l, rs) : l \in CompleteLayouts \cup {ExtraLayout}, rs \in RowSeqs}
  \cup {File(n_csv, FALSE, l, rs) : l \in LackingLayouts, rs \in PlainSeqs}
  \cup {File(n_xlsx, TRUE, StandardLayout, rs) : rs \in PlainSeqs}
  \cup {File(n_txt, FALSE, StandardLayout, rs) : rs \in PlainSeqs}

\* what the two upload widgets can hold when the button is pressed
Uploads ==
  (Files \X NameChoices)
  \cup ({NoFile} \X (NameChoices \cup {""}))
  \cup {<<File(n_csv, FALSE, StandardLayout, <<>>), "">>}


\* datetime.now()
Times == {1}

(* ------------------------------ reading ------------------------------ *)
EndsWith(s, suffix) ==
  /\ Len(s) >= Len(suffix)
  /\ SubSeq(s, Len(s) - Len(suffix) + 1, Len(s)) = suffix

\* pd.read_csv: a workbook is not text
read_csv(file) ==
  IF file.workbook THEN [ok |-> FALSE, data |-> NoFrame]
  ELSE [ok |-> TRUE, data |-> Frame(file.columns, file.rows)]

\* pd.read_excel: raises on a content that is no workbook
read_excel(file) ==
  IF file.workbook THEN [ok |-> TRUE, data |-> Frame(file.columns, file.rows)]
  ELSE [ok |-> FALSE, data |-> NoFrame]

read_file(file) ==
  IF EndsWith(file.name, <<".", "c", "s", "v">>) THEN read_csv(file)
  ELSE read_excel(file)

(* ------------------------------- state ------------------------------- *)
VARIABLES
  database,          \* the content of sales_data.db
  open_connections,  \* connections opened and not closed
  pc,                \* where the pass of the script is
  uploaded_file,     \* the file the upload handler worked on, or NoFile
  dataset_name,      \* the name it was given, "" when none
  data,              \* the frame of the upload handler
  messages,          \* what this pass has shown with st.error / st.success
  raised,            \* the exception that ended this pass, "" when none
  selected_dataset,  \* the selectbox value, "" when there is none
  df,                \* the fetched frame
  start_date, end_date,
  df_filtered, category_sales, region_sales,
  view               \* "none", "table" or "no_data"

upload_vars == <<uploaded_file, dataset_name, data>>
view_vars ==
  <<selected_dataset, df, start_date, end_date, df_filtered, category_sales,
    region_sales, view>>
vars == <<database, open_connections, pc, upload_vars, messages, raised, view_vars>>

Opened(conn) == IF conn.open THEN 1 ELSE 0

Init ==
  /\ database = EmptyDb
  /\ open_connections = 0
  /\ pc = "setup"
  /\ uploaded_file = NoFile
  /\ dataset_name = ""
  /\ data = NoFrame
  /\ messages = <<>>
  /\ raised = ""
  /\ selected_dataset = ""
  /\ df = NoFrame
  /\ start_date = 0
  /\ end_date = 0
  /\ df_filtered = NoFrame
  /\ category_sales = {}
  /\ region_sales = {}
  /\ view = "none"

(* ------------------------------ actions ------------------------------ *)
\* line 52
SetupDatabase ==
  /\ pc = "setup"
  /\ LET conn == setup_database(database)
     IN  /\ database' = conn.durable
         /\ open_connections' = open_connections + Opened(conn)
  /\ pc' = "upload"
  /\ UNCHANGED <<upload_vars, messages, raised, view_vars>>

\* lines 145-166, the button pressed: file is NoFile and name is "" when the
\* widget is empty
UploadDataset(file, name) ==
  /\ pc = "upload"
  /\ uploaded_file' = file
  /\ dataset_name' = name
  /\ IF file # NoFile /\ name # ""
     THEN LET read == read_file(file)
              normalized == normalize_and_map_columns(read.data)
          IN  IF ~read.ok
              THEN /\ raised' = "ValueError"
                   /\ pc' = "aborted"
                   /\ UNCHANGED <<database, open_connections, messages, data>>
              ELSE IF ~validate_columns(normalized, required_columns)
              THEN /\ messages' =
                        Append(messages,
                               MsgMissing(missing_columns(normalized, required_columns)))
                   /\ data' = normalized
                   /\ pc' = "select"
                   /\ UNCHANGED <<database, open_connections, raised>>
              ELSE \E upload_date \in Times :
                     LET saved == save_to_database(database, name,
                                                   coerce_and_drop(normalized),
                                                   upload_date)
                     IN  /\ database' = saved.conn.durable
                         /\ open_connections' = open_connections + Opened(saved.conn)
                         /\ messages' = Append(messages, saved.message)
                         /\ data' = saved.dataframe
                         /\ pc' = "select"
                         /\ UNCHANGED raised
     ELSE /\ messages' = Append(messages, Msg("need_file_and_name"))
          /\ pc' = "select"
          /\ UNCHANGED <<database, open_connections, raised, data>>
  /\ UNCHANGED view_vars

\* line 148, the button not pressed
NoUpload ==
  /\ pc = "upload"
  /\ pc' = "select"
  /\ UNCHANGED <<database, open_connections, upload_vars, messages, raised, view_vars>>

\* the days st.date_input is given in the model: the days of the frame
DayChoices(frame) ==
  {DateOf(Cell(frame, frame.rows[r], c_order_date)) : r \in 1..Len(frame.rows)}

\* lines 169-203.  Nothing below line 166 reads what the upload handler
\* bound (uploaded_file, dataset_name, data): they are dropped here.
SelectDataset ==
  /\ pc = "select"
  /\ LET listed == fetch_dataset_names(database)
     IN  IF listed.names = <<>>
         THEN /\ open_connections' = open_connections + Opened(listed.conn)
              /\ UNCHANGED <<messages, view_vars>>
         ELSE \E selected \in Range(listed.names) :
                LET fetched == fetch_data(database, selected)
                    parsed == parse_order_date(fetched.dataframe)
                IN  /\ open_connections' =
                         open_connections + Opened(listed.conn) + Opened(fetched.conn)
                    /\ selected_dataset' = selected
                    /\ IF fetched.found /\ fetched.dataframe.rows # <<>>
                       THEN \E s \in DayChoices(parsed), e \in DayChoices(parsed) :
                              /\ s <= e
                              /\ df' = parsed
                              /\ start_date' = s
                              /\ end_date' = e
                              /\ df_filtered' = filter_by_date(parsed, s, e)
                              /\ category_sales' = groupby_sum(df_filtered', c_category)
                              /\ region_sales' = groupby_sum(df_filtered', c_region)
                              /\ view' = "table"
                              /\ UNCHANGED messages
                       ELSE /\ df' = fetched.dataframe
                            /\ messages' = Append(messages, Msg("no_data"))
                            /\ view' = "no_data"
                            /\ UNCHANGED <<start_date, end_date, df_filtered,
                                           category_sales, region_sales>>
  /\ uploaded_file' = NoFile
  /\ dataset_name' = ""
  /\ data' = NoFrame
  /\ pc' = "done"
  /\ UNCHANGED <<database, raised>>

\* the next pass of the script starts from fresh module variables
Rerun ==
  /\ pc \in {"done", "aborted"}
  /\ pc' = "setup"
  /\ uploaded_file' = NoFile
  /\ dataset_name' = ""
  /\ data' = NoFrame
  /\ messages' = <<>>
  /\ raised' = ""
  /\ selected_dataset' = ""
  /\ df' = NoFrame
  /\ start_date' = 0
  /\ end_date' = 0
  /\ df_filtered' = NoFrame
  /\ category_sales' = {}
  /\ region_sales' = {}
  /\ view' = "none"
  /\ UNCHANGED <<database, open_connections>>

Next ==
  \/ SetupDatabase
  \/ \E upload \in Uploads : UploadDataset(upload[1], upload[2])
  \/ NoUpload
  \/ SelectDataset
  \/ Rerun

Spec == Init /\ [][Next]_vars

(* ------------------- the four operations called directly ------------- *)
\* the frames save_to_database is handed: what the upload handler makes of
\* the files that pass validate_columns
SavedFrames ==
  {coerce_and_drop(normalize_and_map_columns(read_file(f).data)) :
     f \in {g \in Files : /\ read_file(g).ok
                          /\ validate_columns(
                               normalize_and_map_columns(read_file(g).data),
                               required_columns)}}

CallSetupDatabase ==
  /\ LET conn == setup_database(database)
     IN  /\ database' = conn.durable
         /\ open_connections' = open_connections + Opened(conn)
  /\ UNCHANGED <<pc, upload_vars, messages, raised, view_vars>>

CallSaveToDatabase(name, dataframe) ==
  /\ database.created
  /\ \E upload_date \in Times :
       LET saved == save_to_database(database, name, dataframe, upload_date)
       IN  /\ database' = saved.conn.durable
           /\ open_connections' = open_connections + Opened(saved.conn)
           /\ messages' = <<saved.message>>
  /\ UNCHANGED <<pc, upload_vars, raised, view_vars>>

CallFetchDatasetNames ==
  /\ database.created
  /\ open_connections' = open_connections + Opened(fetch_dataset_names(database).conn)
  /\ UNCHANGED <<database, pc, upload_vars, messages, raised, view_vars>>

\* a connection that was not closed is unreferenced once fetch_data has
\* returned; the script does not decide whether the runtime has finalized
\* it by then
CallFetchData(name) ==
  /\ database.created
  /\ open_connections < MaxOpen
  /\ LET fetched == fetch_data(database, name)
     IN  /\ \E finalized \in BOOLEAN :
               open_connections' =
                 open_connections + (IF finalized THEN 0 ELSE Opened(fetched.conn))
         /\ df' = fetched.dataframe
  /\ UNCHANGED <<database, pc, upload_vars, messages, raised, selected_dataset,
                 start_date, end_date, df_filtered, category_sales, region_sales,
                 view>>

NextApi ==
  \/ CallSetupDatabase
  \/ \E name \in NameChoices, dataframe \in SavedFrames :
       CallSaveToDatabase(name, dataframe)
  \/ CallFetchDatasetNames
  \/ \E name \in NameChoices : CallFetchData(name)

SpecApi == Init /\ [][NextApi]_vars

(* ------------------------------ properties --------------------------- *)
Last(s) == s[Len(s)]

\* the canonical name of each header of a file
CanonicalHeaders(file) ==
  [i \in 1..Len(file.columns) |-> column_mapping(normalize_column(file.columns[i]))]

HeaderIndex(file, c) ==
  CHOOSE i \in 1..Len(file.columns) : CanonicalHeaders(file)[i] = c

Required == Range(required_columns)

Lacking(file) == Required \ Range(CanonicalHeaders(file))

\* the step of the upload handler on a file and a name
Uploading == pc = "upload" /\ uploaded_file' # NoFile /\ dataset_name' # ""

Reported(kind) == messages # <<>> /\ Last(messages).kind = kind

Ids(db) == {db.datasets[i].id : i \in 1..Len(db.datasets)}

TablesChanged ==
  database'.datasets # database.datasets \/ database'.sales_data # database.sales_data

IsPrefix(s, t) == Len(s) <= Len(t) /\ SubSeq(t, 1, Len(s)) = s

\* C1: an upload that reaches save_to_database under a name the registry
\* already holds leaves both tables as they were and reports the duplicate
\* name
C1_DuplicateNameLeavesStore ==
  [][(/\ Uploading
      /\ read_file(uploaded_file').ok
      /\ Lacking(uploaded_file') = {}
      /\ dataset_name' \in DatasetNames(database))
     => /\ database' = database
        /\ messages' = Append(messages, Msg("duplicate_name"))]_vars

C1_Witness ==
  /\ pc = "select"
  /\ Reported("duplicate_name")
  /\ Len(uploaded_file.rows) = MaxRows
  /\ database.sales_data # <<>>

\* C2: an upload of a readable file that lacks a required column after
\* normalization and alias mapping changes neither table and reports exactly
\* the columns that are missing
C2_MissingColumnRejected ==
  [][(/\ Uploading
      /\ read_file(uploaded_file').ok
      /\ Lacking(uploaded_file') # {})
     => /\ database' = database
        /\ Len(messages') = Len(messages) + 1
        /\ Last(messages').kind = "missing_columns"
        /\ Range(Last(messages').columns) = Lacking(uploaded_file')]_vars

C2_Witness ==
  /\ pc = "select"
  /\ Reported("missing_columns")
  /\ Last(messages).columns = <<c_discount>>
  /\ uploaded_file.rows # <<>>
  /\ database.datasets # <<>>

\* a file that reads and carries exactly the eight required columns
WellFormed(file) ==
  /\ read_file(file).ok
  /\ Len(file.columns) = Len(required_columns)
  /\ Range(CanonicalHeaders(file)) = Required

ValidRows(file) ==
  LET good(row) == ValidDateText(row[HeaderIndex(file, c_order_date)])
  IN  SelectSeq(file.rows, good)

\* the upload of file under name took the tables from before to after: one
\* registry row more, one record per row of the file with a valid date, each
\* with the new id, and fetch_data returning exactly these records
RoundTrip(file, name, before, after) ==
  LET kept == ValidRows(file)
      id == Last(after.datasets).id
      fetched == fetch_data(after, name)
  IN  /\ Len(after.datasets) = Len(before.datasets) + 1
      /\ IsPrefix(before.datasets, after.datasets)
      /\ Last(after.datasets).name = name
      /\ id \notin Ids(before)
      /\ IsPrefix(before.sales_data, after.sales_data)
      /\ Len(after.sales_data) = Len(before.sales_data) + Len(kept)
      /\ \A i \in (Len(before.sales_data) + 1)..Len(after.sales_data) :
           after.sales_data[i][c_dataset_id] = id
      /\ fetched.found
      /\ Len(fetched.dataframe.rows) = Len(kept)
      /\ \A i \in 1..Len(fetched.dataframe.rows) :
           LET row == fetched.dataframe.rows[i]
           IN  /\ Cell(fetched.dataframe, row, c_dataset_id) = id
               /\ Cell(fetched.dataframe, row, c_order_date) # NullText
               /\ \A c \in Required :
                    Cell(fetched.dataframe, row, c) = kept[i][HeaderIndex(file, c)]

\* C3: the upload, under a name the registry does not hold, of a file with
\* exactly the eight required columns and N rows, K of them with an
\* unparseable date, adds one Dataset and N-K records with its id, and
\* fetch_data(name) returns exactly these N-K rows with their values
C3_RoundTrip ==
  [][(/\ Uploading
      /\ WellFormed(uploaded_file')
      /\ dataset_name' \notin DatasetNames(database))
     => /\ RoundTrip(uploaded_file', dataset_name', database, database')
        /\ messages' = Append(messages, Msg("saved"))]_vars

C3_Witness ==
  /\ pc = "select"
  /\ Reported("saved")
  /\ Len(uploaded_file.rows) = 2
  /\ Len(ValidRows(uploaded_file)) = 1
  /\ Len(database.datasets) = 2
  /\ Len(fetch_data(database, dataset_name).dataframe.rows) = 1

RefIntegrity(db) ==
  \A i \in 1..Len(db.sales_data) : db.sales_data[i][c_dataset_id] \in Ids(db)

\* C4: every record's dataset_id is the id of a registry row, and a step
\* changes the tables only by adding one registry row together with all the
\* records of the upload, which it reports as saved
C4_Atomic ==
  [][/\ RefIntegrity(database')
     /\ TablesChanged =>
          /\ messages' = Append(messages, Msg("saved"))
          /\ Len(database'.datasets) = Len(database.datasets) + 1
          /\ Len(database'.sales_data) = Len(database.sales_data) + Len(data'.rows)
          /\ \A i \in (Len(database.sales_data) + 1)..Len(database'.sales_data) :
               database'.sales_data[i][c_dataset_id] = Last(database'.datasets).id]_vars

C4_Witness ==
  /\ pc = "select"
  /\ Reported("database_error")
  /\ data.rows # <<>>
  /\ database.sales_data # <<>>

\* C5: no step changes or removes a registry row or a record, and
\* fetch_data returns for every registered name what it returned before
C5_AppendOnly ==
  [][/\ IsPrefix(database.datasets, database'.datasets)
     /\ IsPrefix(database.sales_data, database'.sales_data)
     /\ \A name \in DatasetNames(database) :
          fetch_data(database', name).dataframe = fetch_data(database, name).dataframe]_vars

C5_Witness ==
  /\ pc = "done"
  /\ view = "table"
  /\ Len(database.datasets) = 2
  /\ selected_dataset = database.datasets[1].name
  /\ database.sales_data[Len(database.sales_data)][c_dataset_id] = 2

\* C6: the filtered view holds exactly the records whose order_date falls on
\* a day from start_date to end_date, both days included
C6_InclusiveBothEnds ==
  view = "table" =>
    LET inside(row) ==
          /\ start_date <= DateOf(Cell(df, row, c_order_date))
          /\ DateOf(Cell(df, row, c_order_date)) <= end_date
    IN  df_filtered = Frame(df.columns, SelectSeq(df.rows, inside))

RECURSIVE SumSales(_, _)
SumSales(frame, R) ==
  IF R = {} THEN 0
  ELSE LET r == CHOOSE x \in R : TRUE
       IN  Cell(frame, frame.rows[r], c_sales) + SumSales(frame, R \ {r})

\* result has one pair per key value of the rows R of frame, with the sum
\* of their sales
GroupsOf(frame, key, R, result) ==
  /\ \A r \in R : \E g \in result : g.key = Cell(frame, frame.rows[r], key)
  /\ \A g \in result :
       LET members == {r \in R : Cell(frame, frame.rows[r], key) = g.key}
       IN  /\ members # {}
           /\ g.sales = SumSales(frame, members)
           /\ \A h \in result : h.key = g.key => h = g

AllRows(frame) == 1..Len(frame.rows)

KeyedRows(frame, key) ==
  {r \in AllRows(frame) : Cell(frame, frame.rows[r], key) # NaN}

\* C7 as stated: every filtered row belongs to a group of its category and
\* to a group of its region
C7_EveryRowGrouped ==
  view = "table" =>
    /\ GroupsOf(df_filtered, c_category, AllRows(df_filtered), category_sales)
    /\ GroupsOf(df_filtered, c_region, AllRows(df_filtered), region_sales)

\* C7: the aggregation by category, and by region, has one pair per key
\* value of the filtered rows whose key is not missing, with the sum of
\* their sales; a filtered row with a missing key belongs to no group
C7_KeyedRowsGrouped ==
  view = "table" =>
    /\ GroupsOf(df_filtered, c_category, KeyedRows(df_filtered, c_category),
                category_sales)
    /\ GroupsOf(df_filtered, c_region, KeyedRows(df_filtered, c_region),
                region_sales)

C7_Witness ==
  /\ view = "table"
  /\ Len(df_filtered.rows) = 2
  /\ KeyedRows(df_filtered, c_category) # AllRows(df_filtered)
  /\ Cardinality(category_sales) = 1
  /\ Cardinality(region_sales) = 2

\* C8: the upload, under a name the registry does not hold, of a file with
\* the eight required columns and further ones is saved: one Dataset more
\* and one record per row with a valid date
C8_ExtraColumnsIgnored ==
  [][(/\ Uploading
      /\ read_file(uploaded_file').ok
      /\ Lacking(uploaded_file') = {}
      /\ Len(uploaded_file'.columns) > Len(required_columns)
      /\ dataset_name' \notin DatasetNames(database))
     => /\ RoundTrip(uploaded_file', dataset_name', database, database')
        /\ messages' = Append(messages, Msg("saved"))]_vars

SupportedExtension(name) ==
  \/ EndsWith(name, <<".", "c", "s", "v">>)
  \/ EndsWith(name, <<".", "x", "l", "s">>)
  \/ EndsWith(name, <<".", "x", "l", "s", "x">>)

C10_NoOpenConnection == open_connections = 0

====
